---------------------------- MODULE Spec2Model ----------------------------
(***************************************************************************)
(* The manipulation engine of the fx file manager (src/src/state.rs):      *)
(* trash-based delete, paste/restore, and the undo/redo log, over a model  *)
(* of the filesystem.  File names are strings, paths are sequences of      *)
(* names, the filesystem is a function from the existing paths to their    *)
(* entries.                                                                *)
(***************************************************************************)
EXTENDS Integers, Sequences, FiniteSets, TLC

VARIABLES
    fs,           \* the filesystem: [path -> entry]
    list,         \* State.list: the loaded snapshot of current_dir
    registered,   \* State.registered: the clipboard
    manip_list,   \* State.manipulations.manip_list
    count,        \* State.manipulations.count (the redo pointer)
    current_dir,  \* State.current_dir
    show_hidden,  \* State.show_hidden
    now,          \* the wall clock, in epoch seconds
    ret,          \* what the last call did and returned
    prev,         \* ret of the call before it
    armed,        \* the filesystem call of the next operation that will fail (0: none)
    steps,        \* number of steps taken so far
    sort_by,      \* State.sort_by
    entries,      \* what fs::read_dir yields for a listing, in its order
    walk          \* where a put_dir that is followed entry by entry stands

vars == <<fs, list, registered, manip_list, count, current_dir, show_hidden,
          now, ret, prev, armed, steps, sort_by, entries, walk>>

-----------------------------------------------------------------------------
(* Bounds of the model. *)

\* steps explored from the initial state
MaxSteps == 4
\* seconds the clock may advance
MaxTick == 1
\* the latest filesystem call of an operation that a fault may hit
MaxFault == 3
\* most items selected together
MaxBatch == 2
\* longest path the filesystem accepts, in components (PATH_MAX)
MaxDepth == 5
\* most entries of a directory that is listed on its own
MaxEntries == 3

\* the epoch second at which the program starts
Epoch == 1700000000

-----------------------------------------------------------------------------
(* Paths and names. *)

HomeDir == <<"home">>
TrashDir == <<"trash">>

Parent(p) == SubSeq(p, 1, Len(p) - 1)
FileName(p) == p[Len(p)]
Join(p, name) == Append(p, name)
IsPrefix(p, q) == Len(p) <= Len(q) /\ SubSeq(q, 1, Len(p)) = p

\* the empty PathBuf, which names nothing
NoPath == <<>>

\* String::chars().skip(n).collect()
SkipChars(s, n) == SubSeq(s, n + 1, Len(s))

CharAt(s, i) == SubSeq(s, i, i)

\* characters in code-point order
Alphabet == "+.0123456789_abcdefghijklmnopqrstuvwxyz"
RankOf == [c \in {CharAt(Alphabet, i) : i \in 1..Len(Alphabet)} |->
             CHOOSE i \in 1..Len(Alphabet) : CharAt(Alphabet, i) = c]
Rank(c) == RankOf[c]
IsDigit(c) == Rank(c) \in Rank("0")..Rank("9")

-----------------------------------------------------------------------------
(* The filesystem. *)

Dir == [kind |-> "dir", data |-> 0, target |-> NoPath]
File(d) == [kind |-> "file", data |-> d, target |-> NoPath]
Link(t) == [kind |-> "link", data |-> 0, target |-> t]

Exists(f, p) == p \in DOMAIN f
\* the entry a path leads to, following a symbolic link
Resolve(f, p) == IF Exists(f, p) /\ f[p].kind = "link" THEN f[p].target ELSE p
\* Path::exists(): the path resolves to an entry
PathExists(f, p) == Exists(f, Resolve(f, p))
IsDir(f, p) == Exists(f, p) /\ f[p].kind = "dir"
IsFile(f, p) == Exists(f, p) /\ f[p].kind = "file"
Children(f, p) == {q \in DOMAIN f : Len(q) = Len(p) + 1 /\ IsPrefix(p, q)}
Subtree(f, p) == {q \in DOMAIN f : IsPrefix(p, q)}

FsWith(f, p, e) == [q \in DOMAIN f \cup {p} |-> IF q = p THEN e ELSE f[q]]
FsWithout(f, ps) == [q \in DOMAIN f \ ps |-> f[q]]

\* std::fs::copy(from, to): the bytes of the file `from` resolves to are written
\* to `to`; copying a file onto itself truncates it.
FsCopy(f, from, to, fail) ==
    LET src == Resolve(f, from)
        dst == Resolve(f, to)
        can == /\ ~fail
               /\ IsFile(f, src)
               /\ IsDir(f, Parent(dst))
               /\ Len(dst) <= MaxDepth
               /\ (Exists(f, dst) => IsFile(f, dst))
    IN  IF can
        THEN [ok |-> TRUE,
              fs |-> FsWith(f, dst, File(IF src = dst THEN 0 ELSE f[src].data))]
        ELSE [ok |-> FALSE, fs |-> f]

\* std::fs::remove_file(p): unlinks a file or a symbolic link
FsRemoveFile(f, p, fail) ==
    IF ~fail /\ Exists(f, p) /\ f[p].kind # "dir"
    THEN [ok |-> TRUE, fs |-> FsWithout(f, {p})]
    ELSE [ok |-> FALSE, fs |-> f]

\* std::fs::remove_dir_all(p): removes a directory with all it holds; a symbolic
\* link is removed itself
FsRemoveDirAll(f, p, fail) ==
    IF ~fail /\ Exists(f, p) /\ f[p].kind # "file"
    THEN [ok |-> TRUE, fs |-> FsWithout(f, Subtree(f, p))]
    ELSE [ok |-> FALSE, fs |-> f]

\* std::fs::create_dir(p)
FsCreateDir(f, p, fail) ==
    IF ~fail /\ ~Exists(f, p) /\ IsDir(f, Parent(p)) /\ Len(p) <= MaxDepth
    THEN [ok |-> TRUE, fs |-> FsWith(f, p, Dir)]
    ELSE [ok |-> FALSE, fs |-> f]

\* std::fs::create_dir_all(p): p and every missing ancestor of it
FsCreateDirAll(f, p, fail) ==
    LET anc == {SubSeq(p, 1, k) : k \in 1..Len(p)}
        can == /\ ~fail
               /\ Len(p) <= MaxDepth
               /\ \E a \in anc : IsDir(f, a)
               /\ \A a \in anc : Exists(f, a) => IsDir(f, a)
    IN  IF can
        THEN [ok |-> TRUE,
              fs |-> [q \in DOMAIN f \cup anc |-> IF q \in DOMAIN f THEN f[q] ELSE Dir]]
        ELSE [ok |-> FALSE, fs |-> f]

\* std::fs::rename(from, to)
FsRename(f, from, to, fail) ==
    LET moved == Subtree(f, from)
        can == /\ ~fail
               /\ Exists(f, from)
               /\ IsDir(f, Parent(to))
               /\ (~IsPrefix(from, to) \/ from = to)
               /\ (Exists(f, to) => (f[to].kind # "dir" /\ f[from].kind # "dir"))
        re(q) == to \o SubSeq(q, Len(from) + 1, Len(q))
    IN  IF ~can THEN [ok |-> FALSE, fs |-> f]
        ELSE IF from = to THEN [ok |-> TRUE, fs |-> f]
        ELSE [ok |-> TRUE,
              fs |-> [q \in (DOMAIN f \ moved) \cup {re(m) : m \in moved} |->
                        IF \E m \in moved : re(m) = q
                        THEN f[CHOOSE m \in moved : re(m) = q]
                        ELSE f[q]]]

-----------------------------------------------------------------------------
(* Items and directory listing. *)

FileTypeOf(e) == CASE e.kind = "dir" -> "Directory"
                   [] e.kind = "file" -> "File"
                   [] OTHER -> "Symlink"

\* make_item: the snapshot of one directory entry
make_item(f, p) ==
    [file_type |-> FileTypeOf(f[p]),
     file_name |-> FileName(p),
     file_path |-> p,
     is_hidden |-> CharAt(FileName(p), 1) = ".",
     selected  |-> FALSE]

Sign(x, y) == IF x < y THEN -1 ELSE IF x > y THEN 1 ELSE 0
DigitAt(s, i) == i <= Len(s) /\ IsDigit(CharAt(s, i))

RECURSIVE NatCmp(_, _, _, _)
RECURSIVE DigitsLeft(_, _, _, _)
RECURSIVE DigitsRight(_, _, _, _, _)
\* natord::compare from positions i of a and j of b: -1, 0 or 1
NatCmp(a, b, i, j) ==
    IF i > Len(a) /\ j > Len(b) THEN 0
    ELSE IF j > Len(b) THEN 1
    ELSE IF i > Len(a) THEN -1
    ELSE LET c == Sign(Rank(CharAt(a, i)), Rank(CharAt(b, j)))
         IN  IF DigitAt(a, i) /\ DigitAt(b, j)
             THEN IF CharAt(a, i) = "0" \/ CharAt(b, j) = "0"
                  THEN IF c # 0 THEN c ELSE DigitsLeft(a, b, i + 1, j + 1)
                  ELSE DigitsRight(a, b, i + 1, j + 1, c)
             ELSE IF c # 0 THEN c ELSE NatCmp(a, b, i + 1, j + 1)
\* a run of digits with a leading zero: the first difference decides
DigitsLeft(a, b, i, j) ==
    IF DigitAt(a, i) /\ DigitAt(b, j)
    THEN LET c == Sign(Rank(CharAt(a, i)), Rank(CharAt(b, j)))
         IN  IF c # 0 THEN c ELSE DigitsLeft(a, b, i + 1, j + 1)
    ELSE IF DigitAt(a, i) THEN 1
    ELSE IF DigitAt(b, j) THEN -1
    ELSE NatCmp(a, b, i, j)
\* a run of digits without one: the longer run is greater, then the first difference
DigitsRight(a, b, i, j, last) ==
    IF DigitAt(a, i) /\ DigitAt(b, j)
    THEN DigitsRight(a, b, i + 1, j + 1,
                     IF last = 0 THEN Sign(Rank(CharAt(a, i)), Rank(CharAt(b, j)))
                     ELSE last)
    ELSE IF DigitAt(a, i) THEN 1
    ELSE IF DigitAt(b, j) THEN -1
    ELSE IF last # 0 THEN last
    ELSE NatCmp(a, b, i, j)

\* the least of a set of distinct names in natural order
MinName(N) == CHOOSE x \in N : \A y \in N \ {x} : NatCmp(x, y, 1, 1) < 0

RECURSIVE SortNames(_)
RECURSIVE SortCons(_, _)
\* the names of N in natural order
SortNames(N) ==
    IF N = {} THEN <<>> ELSE SortCons(MinName(N), N)
SortCons(m, N) == <<m>> \o SortNames(N \ {m})

\* Vec::sort_by(natord::compare) of the entries of directory p that satisfy Is
SortedEntries(f, p, dirs) ==
    LET names == SortNames({FileName(q) :
                              q \in {c \in Children(f, p) : (f[c].kind = "dir") = dirs}})
    IN  [i \in 1..Len(names) |-> make_item(f, Join(p, names[i]))]

\* push_items(p, SortKey::Name, show): directories, then files and links;
\* hidden items are dropped from the sorted sequence unless show
push_items(f, p, show, fail) ==
    IF fail \/ ~IsDir(f, p) THEN [ok |-> FALSE, items |-> <<>>]
    ELSE LET Shown(x) == show \/ ~x.is_hidden
         IN  [ok |-> TRUE,
              items |-> SelectSeq(SortedEntries(f, p, TRUE)
                                  \o SortedEntries(f, p, FALSE), Shown)]

\* make_item for an entry read_dir yielded in directory dir.  e.meta tells
\* whether fs::symlink_metadata succeeded; when it did not, the item is a File
\* without time that is never hidden.  modified is the Option<String> of the
\* RFC 3339 text of the time in the local zone.
NoTime == [some |-> FALSE, time |-> ""]
SomeTime(t) == [some |-> TRUE, time |-> t]
\* DateTime::<Local>::from(t): the offset of the local zone at the instant t,
\* counted in hours from midnight UTC of a night in which summer time ends
\* at 01:00 UTC
LocalOffset(t) == IF t < 1 THEN 2 ELSE 1
TwoDigits(n) == "0" \o CharAt("0123456789", n + 1)
\* to_rfc3339_opts(SecondsFormat::Secs, false): the local time, then the offset
to_rfc3339_opts(t) == TwoDigits(t + LocalOffset(t)) \o "+" \o TwoDigits(LocalOffset(t))
make_item_of(e, dir) ==
    [file_type |-> IF e.meta THEN FileTypeOf(e) ELSE "File",
     file_name |-> e.name,
     file_path |-> Join(dir, e.name),
     is_hidden |-> e.meta /\ CharAt(e.name, 1) = ".",
     modified  |-> IF e.meta THEN SomeTime(to_rfc3339_opts(e.mtime)) ELSE NoTime,
     selected  |-> FALSE]

RECURSIVE StrCmp(_, _, _)
\* String::cmp from position i on: -1, 0 or 1
StrCmp(a, b, i) ==
    IF i > Len(a) /\ i > Len(b) THEN 0
    ELSE IF i > Len(a) THEN -1
    ELSE IF i > Len(b) THEN 1
    ELSE IF CharAt(a, i) # CharAt(b, i)
    THEN Sign(Rank(CharAt(a, i)), Rank(CharAt(b, i)))
    ELSE StrCmp(a, b, i + 1)
\* Option<String>::partial_cmp, which is always Some: None is below every Some
OptionCmp(x, y) ==
    IF ~x.some /\ ~y.some THEN 0
    ELSE IF ~x.some THEN -1
    ELSE IF ~y.some THEN 1
    ELSE StrCmp(x.time, y.time, 1)
\* the closure handed to sort_by for the sort key
KeyCmp(key, a, b) ==
    IF key = "Name" THEN NatCmp(a.file_name, b.file_name, 1, 1)
    ELSE OptionCmp(b.modified, a.modified)

RECURSIVE SortBy(_, _)
\* x put into the sorted v behind every item that is not greater than it
Insert(key, v, x) ==
    LET k == Cardinality({i \in 1..Len(v) : KeyCmp(key, v[i], x) <= 0})
    IN  SubSeq(v, 1, k) \o <<x>> \o SubSeq(v, k + 1, Len(v))
\* Vec::sort_by, a stable sort
SortBy(key, v) ==
    IF v = <<>> THEN <<>>
    ELSE Insert(key, SortBy(key, SubSeq(v, 1, Len(v) - 1)), v[Len(v)])

\* a listing that sorts directories and files as one vector
push_items_mixed(ents, dir, key, show) ==
    LET Shown(x) == show \/ ~x.is_hidden
    IN  SelectSeq(SortBy(key, [i \in 1..Len(ents) |-> make_item_of(ents[i], dir)]),
                  Shown)

\* push_items(dir, key, show) over the entries read_dir yielded: dir_v and
\* file_v are sorted apart and appended, then hidden items are dropped
push_items_of(ents, dir, key, show) ==
    LET IsDirItem(x) == x.file_type = "Directory"
        IsFileItem(x) == x.file_type # "Directory"
        Shown(x) == show \/ ~x.is_hidden
        items == [i \in 1..Len(ents) |-> make_item_of(ents[i], dir)]
    IN  SelectSeq(SortBy(key, SelectSeq(items, IsDirItem))
                  \o SortBy(key, SelectSeq(items, IsFileItem)), Shown)

Listed(r, old) == IF r.ok THEN r.items ELSE old
\* update_list: the list is replaced only when the directory can be read
update_list(f, dir, show, old) == Listed(push_items(f, dir, show, FALSE), old)

-----------------------------------------------------------------------------
(* walkdir::WalkDir: the root first, then every directory's entries, the      *)
(* entries of a directory being read when the walk first asks for one of them *)
(* (after the caller has handled the directory itself).                       *)

\* the entries of directory d, in the order the walk yields them
ReadDir(f, d) ==
    LET names == SortNames({FileName(q) : q \in Children(f, d)})
    IN  [i \in 1..Len(names) |-> Join(d, names[i])]

Frame(d) == [dir |-> d, read |-> FALSE, pending |-> <<>>]

\* the walk after its first entry, the root
WalkStart(f, root) ==
    IF IsDir(f, Resolve(f, root)) THEN <<Frame(root)>> ELSE <<>>

RECURSIVE WalkNext(_, _)
RECURSIVE WalkTop(_, _, _, _)
\* the walk's next entry, and the walk after it
WalkNext(f, stk) ==
    IF stk = <<>> THEN [done |-> TRUE, entry |-> NoPath, stk |-> <<>>]
    ELSE WalkTop(f, SubSeq(stk, 1, Len(stk) - 1), stk[Len(stk)].dir,
                 IF stk[Len(stk)].read THEN stk[Len(stk)].pending
                 ELSE ReadDir(f, stk[Len(stk)].dir))
\* the walk with directory dir on top of rest, pend being dir's entries to come
WalkTop(f, rest, dir, pend) ==
    IF pend = <<>> THEN WalkNext(f, rest)
    ELSE [done |-> FALSE, entry |-> Head(pend),
          stk |-> Append(rest, [dir |-> dir, read |-> TRUE, pending |-> Tail(pend)])
                  \o (IF IsDir(f, Head(pend)) THEN <<Frame(Head(pend))>> ELSE <<>>)]

\* the path of entry p of the tree at root, in the copy of the tree at target
Rebase(p, root, target) == target \o SubSeq(p, Len(root) + 1, Len(p))

-----------------------------------------------------------------------------
(* The delete engine.  An operation threads e = [fs, n]: the filesystem and   *)
(* the number of filesystem calls made so far; the call numbered `fault`      *)
(* fails (disk full, permission denied), fault = 0 being a run without one.   *)

Hit(e, fault) == e.n + 1 = fault

\* the fault in which no process can be started, so that Command::status()
\* of rm is an Err; it is no filesystem call and hits none
NoRm == -1

\* what handling one target returned, and the engine after it
Res(err, f, n, reg, path) ==
    [err |-> err, fs |-> f, n |-> n, reg |-> reg, path |-> path]

\* <epoch seconds>_<name>
TrashName(t, name) == ToString(t) \o "_" \o name

push_to_registered(reg, item, file_path, file_name) ==
    Append(reg, [item EXCEPT !.file_path = file_path,
                             !.file_name = file_name,
                             !.selected = FALSE])

\* remove_and_yank_file after remove_file returned rm
YankFileRemoved(rm, n, reg, to) ==
    IF rm.ok THEN Res("ok", rm.fs, n, reg, to)
    ELSE Res("remove", rm.fs, n, reg, NoPath)

\* remove_and_yank_file after the copy to the trash returned cp
YankFileCopied(cp, e, reg, item, rename, fault) ==
    IF ~cp.ok THEN Res("copy", e.fs, e.n + 1, reg, NoPath)
    ELSE YankFileRemoved(FsRemoveFile(cp.fs, item.file_path, e.n + 2 = fault), e.n + 2,
                         push_to_registered(reg, item, Join(TrashDir, rename), rename),
                         Join(TrashDir, rename))

remove_and_yank_file(e, reg, item, new_manip, t, fault) ==
    IF item.file_type = "Symlink" /\ ~PathExists(e.fs, item.file_path)
    THEN \* rm is run on a link that no longer resolves, and its exit status is
         \* not looked at: an rm that could not unlink is Ok as well, with the
         \* empty path; only an rm that could not be started is an error
         IF fault = NoRm THEN Res("io", e.fs, e.n, reg, NoPath)
         ELSE Res("ok", FsRemoveFile(e.fs, item.file_path, Hit(e, fault)).fs, e.n + 1,
                  reg, NoPath)
    ELSE IF new_manip
    THEN YankFileCopied(FsCopy(e.fs, item.file_path,
                               Join(TrashDir, TrashName(t, item.file_name)),
                               Hit(e, fault)),
                        e, reg, item, TrashName(t, item.file_name), fault)
    ELSE YankFileRemoved(FsRemoveFile(e.fs, item.file_path, Hit(e, fault)), e.n + 1,
                         reg, NoPath)

RECURSIVE YankDirWalk(_, _, _, _, _)
RECURSIVE YankDirEntry(_, _, _, _, _)
RECURSIVE YankDirCopied(_, _, _, _, _, _, _)
\* remove_and_yank_dir, the entries after the root: each is re-created under
\* trash_path at its path relative to the root
YankDirWalk(e, stk, root, trash_path, fault) ==
    YankDirEntry(WalkNext(e.fs, stk), e, root, trash_path, fault)
YankDirEntry(nx, e, root, trash_path, fault) ==
    IF nx.done THEN [err |-> "ok", fs |-> e.fs, n |-> e.n]
    ELSE YankDirCopied(IF IsDir(e.fs, nx.entry)
                       THEN FsCreateDirAll(e.fs, Rebase(nx.entry, root, trash_path),
                                           Hit(e, fault))
                       ELSE FsCopy(e.fs, nx.entry, Rebase(nx.entry, root, trash_path),
                                   Hit(e, fault)),
                       IF IsDir(e.fs, nx.entry) THEN "io" ELSE "copy",
                       e.n + 1, nx.stk, root, trash_path, fault)
YankDirCopied(r, err, n, stk, root, trash_path, fault) ==
    IF r.ok THEN YankDirWalk([fs |-> r.fs, n |-> n], stk, root, trash_path, fault)
    ELSE [err |-> err, fs |-> r.fs, n |-> n]

\* remove_and_yank_dir after remove_dir_all returned rm
YankDirRemoved(rm, n, reg, trash_path) ==
    IF rm.ok THEN Res("ok", rm.fs, n, reg, trash_path)
    ELSE Res("remove", rm.fs, n, reg, NoPath)

\* a remove_and_yank_dir that removes the original whatever the walk returned
YankDirWalkedAnyway(w, reg, item, trash_name, fault) ==
    YankDirRemoved(FsRemoveDirAll(w.fs, item.file_path, w.n + 1 = fault), w.n + 1,
                   push_to_registered(reg, item, Join(TrashDir, trash_name), trash_name),
                   Join(TrashDir, trash_name))

\* remove_and_yank_dir after the walk returned w
YankDirWalked(w, reg, item, trash_name, fault) ==
    IF w.err # "ok" THEN Res(w.err, w.fs, w.n, reg, NoPath)
    ELSE YankDirRemoved(FsRemoveDirAll(w.fs, item.file_path, w.n + 1 = fault), w.n + 1,
                        push_to_registered(reg, item, Join(TrashDir, trash_name),
                                           trash_name),
                        Join(TrashDir, trash_name))

\* remove_and_yank_dir after the trash root was created, create_dir returning mk
YankDirMade(mk, e, reg, item, trash_name, fault) ==
    IF ~mk.ok THEN Res("io", e.fs, e.n + 1, reg, NoPath)
    ELSE YankDirWalked(YankDirWalk([fs |-> mk.fs, n |-> e.n + 1],
                                   WalkStart(e.fs, item.file_path), item.file_path,
                                   Join(TrashDir, trash_name), fault),
                       reg, item, trash_name, fault)

remove_and_yank_dir(e, reg, item, new_manip, t, fault) ==
    IF ~new_manip
    THEN YankDirRemoved(FsRemoveDirAll(e.fs, item.file_path, Hit(e, fault)), e.n + 1,
                        reg, NoPath)
    ELSE IF ~Exists(e.fs, item.file_path) THEN Res("io", e.fs, e.n, reg, NoPath)
    ELSE YankDirMade(FsCreateDir(e.fs,
                                 Join(TrashDir, TrashName(t, FileName(item.file_path))),
                                 Hit(e, fault)),
                     e, reg, item, TrashName(t, FileName(item.file_path)), fault)

RECURSIVE YankLoop(_, _, _, _, _, _, _)
RECURSIVE YankNext(_, _, _, _, _, _)
\* remove_and_yank's loop over the targets, from target i on; the batch stops
\* at the first target that returns an error
YankLoop(e, reg, trash_vec, targets, i, new_manip, tf) ==
    IF i > Len(targets)
    THEN [err |-> "ok", fs |-> e.fs, n |-> e.n, reg |-> reg, trash_vec |-> trash_vec]
    ELSE YankNext(IF targets[i].file_type = "Directory"
                  THEN remove_and_yank_dir(e, reg, targets[i], new_manip, tf.t, tf.fault)
                  ELSE remove_and_yank_file(e, reg, targets[i], new_manip, tf.t, tf.fault),
                  trash_vec, targets, i, new_manip, tf)
YankNext(r, trash_vec, targets, i, new_manip, tf) ==
    IF r.err # "ok"
    THEN [err |-> r.err, fs |-> r.fs, n |-> r.n, reg |-> r.reg, trash_vec |-> trash_vec]
    ELSE YankLoop([fs |-> r.fs, n |-> r.n], r.reg, Append(trash_vec, r.path),
                  targets, i + 1, new_manip, tf)

\* Manipulation records
DeletedFiles(trash, original, dir) ==
    [kind |-> "Delete", trash |-> trash, original |-> original, put |-> <<>>,
     dir |-> dir, original_name |-> NoPath, new_name |-> NoPath]
PutFiles(original, put, dir) ==
    [kind |-> "Put", trash |-> <<>>, original |-> original, put |-> put,
     dir |-> dir, original_name |-> NoPath, new_name |-> NoPath]
RenamedFile(original_name, new_name) ==
    [kind |-> "Rename", trash |-> <<>>, original |-> <<>>, put |-> <<>>,
     dir |-> NoPath, original_name |-> original_name, new_name |-> new_name]

\* a branch_manip that pops nothing
KeepUndone(ml, c) == ml

\* branch_manip: the undone records are popped
branch_manip(ml, c) ==
    IF c = 0 THEN ml ELSE SubSeq(ml, 1, Len(ml) - c)

\* a remove_and_yank that pushes its record without looking at new_manip
YankDoneLogged(r, ml, c, dir, targets, new_manip) ==
    [err |-> r.err, fs |-> r.fs, registered |-> r.reg, n |-> r.n,
     trash_vec |-> r.trash_vec,
     manip_list |-> IF r.err = "ok"
                    THEN Append(branch_manip(ml, c),
                                DeletedFiles(r.trash_vec, targets, dir))
                    ELSE ml,
     count |-> IF r.err = "ok" THEN 0 ELSE c]

\* remove_and_yank after the loop returned r: the record is pushed when every
\* target succeeded and the call is a logged one
YankDone(r, ml, c, dir, targets, new_manip) ==
    [err |-> r.err, fs |-> r.fs, registered |-> r.reg, n |-> r.n,
     trash_vec |-> r.trash_vec,
     manip_list |-> IF r.err = "ok" /\ new_manip
                    THEN Append(branch_manip(ml, c),
                                DeletedFiles(r.trash_vec, targets, dir))
                    ELSE ml,
     count |-> IF r.err = "ok" /\ new_manip THEN 0 ELSE c]

\* a remove_and_yank that takes new_manip as set when it comes to the log
remove_and_yank_logged(f, ml, c, dir, targets, new_manip, t, fault) ==
    YankDone(YankLoop([fs |-> f, n |-> 0], <<>>, <<>>, targets, 1, new_manip,
                      [t |-> t, fault |-> fault]),
             ml, c, dir, targets, TRUE)

\* remove_and_yank(targets, new_manip) in directory dir at time t: the outcome
\* and the engine's state after it
remove_and_yank(f, ml, c, dir, targets, new_manip, t, fault) ==
    YankDone(YankLoop([fs |-> f, n |-> 0], <<>>, <<>>, targets, 1, new_manip,
                      [t |-> t, fault |-> fault]),
             ml, c, dir, targets, new_manip)

-----------------------------------------------------------------------------
(* The paste/restore engine. *)

None == [some |-> FALSE, path |-> NoPath]
Some(p) == [some |-> TRUE, path |-> p]

\* length of the prefix a trash name carries: the ten digits of the epoch
\* second and the separator
PrefixLen == 11

Suffixed(name, k) == name \o "_" \o ToString(k)

\* the collision policy: the name itself when it is free, else the name with
\* the first free numeric disambiguator
FreeName(name, name_set) ==
    IF name \notin name_set THEN name
    ELSE Suffixed(name, CHOOSE j \in 1..(Cardinality(name_set) + 1) :
                          /\ Suffixed(name, j) \notin name_set
                          /\ \A i \in 1..(j - 1) : Suffixed(name, i) \in name_set)

rename_file(file_name, name_set) == FreeName(file_name, name_set)
rename_dir(file_name, name_set) == FreeName(file_name, name_set)

\* an item whose parent is the trash directory carries the timestamp prefix
FromTrash(item) == Parent(item.file_path) = TrashDir
StrippedName(item) ==
    IF FromTrash(item) THEN SkipChars(item.file_name, PrefixLen) ELSE item.file_name

\* what putting one target returned, and the engine after it
PutRes(err, f, n, name_set, path) ==
    [err |-> err, fs |-> f, n |-> n, name_set |-> name_set, path |-> path]

\* put_file after the copy to dest/rename returned cp: the name enters the
\* name set when the copy succeeded
PutFileCopied(cp, n, name_set, rename, to) ==
    IF cp.ok THEN PutRes("ok", cp.fs, n, name_set \cup {rename}, to)
    ELSE PutRes("copy", cp.fs, n, name_set, NoPath)

\* put_file with the name the file is created under
PutFileAs(rename, e, item, dest, name_set, fault) ==
    PutFileCopied(FsCopy(e.fs, item.file_path, Join(dest, rename), Hit(e, fault)),
                  e.n + 1, name_set, rename, Join(dest, rename))

put_file(e, item, dest, name_set, fault) ==
    PutFileAs(rename_file(StrippedName(item), name_set), e, item, dest, name_set, fault)

\* put_dir's loop after the copy of an entry returned r: the loop ends with
\* the error, or goes on with the walk stk
PutDirCopied(r, err, n, stk) ==
    [done |-> ~r.ok, err |-> IF r.ok THEN "ok" ELSE err, fs |-> r.fs, n |-> n,
     stk |-> stk]
\* a loop that does not leave when the walk has no entry left
PutDirEntryEndless(nx, e, root, target, fault) ==
    [done |-> FALSE, err |-> "ok", fs |-> e.fs, n |-> e.n, stk |-> <<>>]
\* put_dir's loop for nx, what the walk yielded: an entry after the root is
\* re-created under target at its path relative to the root
PutDirEntry(nx, e, root, target, fault) ==
    IF nx.done THEN [done |-> TRUE, err |-> "ok", fs |-> e.fs, n |-> e.n, stk |-> <<>>]
    ELSE PutDirCopied(IF IsDir(e.fs, nx.entry)
                      THEN FsCreateDirAll(e.fs, Rebase(nx.entry, root, target),
                                          Hit(e, fault))
                      ELSE FsCopy(e.fs, nx.entry, Rebase(nx.entry, root, target),
                                  Hit(e, fault)),
                      IF IsDir(e.fs, nx.entry) THEN "io" ELSE "copy",
                      e.n + 1, nx.stk)

RECURSIVE PutDirWalk(_, _, _, _, _)
RECURSIVE PutDirLoop(_, _, _, _)
\* put_dir, the entries after the root, until the walk ends or an entry fails
PutDirWalk(e, stk, root, target, fault) ==
    PutDirLoop(PutDirEntry(WalkNext(e.fs, stk), e, root, target, fault), root, target,
               fault)
PutDirLoop(w, root, target, fault) ==
    IF w.done THEN [err |-> w.err, fs |-> w.fs, n |-> w.n]
    ELSE PutDirWalk([fs |-> w.fs, n |-> w.n], w.stk, root, target, fault)

\* put_dir, the root entry: the directory the copy is created under.  A
\* directory from the trash is created under its stripped name, while the
\* collision-resolved name is what enters the name set.
PutDirTarget(buf, dest, name_set) ==
    IF FromTrash(buf) THEN Join(dest, StrippedName(buf))
    ELSE Join(dest, rename_dir(buf.file_name, name_set))

\* put_dir after the walk returned w
PutDirWalked(w, names1, target) ==
    PutRes(w.err, w.fs, w.n, names1, IF w.err = "ok" THEN target ELSE NoPath)

\* put_dir after create_dir(target) returned mk; the name is in the set already
PutDirMade(mk, e, buf, target, names1, fault) ==
    IF ~mk.ok THEN PutRes("io", e.fs, e.n + 1, names1, NoPath)
    ELSE PutDirWalked(PutDirWalk([fs |-> mk.fs, n |-> e.n + 1],
                                 WalkStart(e.fs, buf.file_path), buf.file_path,
                                 target, fault),
                      names1, target)

\* put_dir with the directory it creates
PutDirAt(target, e, buf, name_set, fault) ==
    PutDirMade(FsCreateDir(e.fs, target, Hit(e, fault)), e, buf, target,
               name_set \cup {rename_dir(StrippedName(buf), name_set)}, fault)

put_dir(e, buf, dest, name_set, fault) ==
    IF ~Exists(e.fs, buf.file_path) THEN PutRes("io", e.fs, e.n, name_set, NoPath)
    ELSE PutDirAt(PutDirTarget(buf, dest, name_set), e, buf, name_set, fault)

RECURSIVE PutLoop(_, _, _, _, _, _, _)
RECURSIVE PutNext(_, _, _, _, _, _, _)
\* put_items' loop over the targets, from target i on: a target that fails is
\* skipped, the loop goes on.  outs collects what each target returned, and
\* the names it inserted into the name set.
PutLoop(e, name_set, acc, targets, i, dest, fault) ==
    IF i > Len(targets)
    THEN [fs |-> e.fs, n |-> e.n, put_v |-> acc.put_v, outs |-> acc.outs,
          name_set |-> name_set]
    ELSE PutNext(IF targets[i].file_type = "Directory"
                 THEN put_dir(e, targets[i], dest, name_set, fault)
                 ELSE put_file(e, targets[i], dest, name_set, fault),
                 name_set, acc, targets, i, dest, fault)
PutNext(r, name_set, acc, targets, i, dest, fault) ==
    PutLoop([fs |-> r.fs, n |-> r.n], r.name_set,
            [put_v |-> IF r.err = "ok" THEN Append(acc.put_v, r.path) ELSE acc.put_v,
             outs  |-> Append(acc.outs, [err |-> r.err, path |-> r.path,
                                         named |-> r.name_set \ name_set])],
            targets, i + 1, dest, fault)

Names(items) == {items[i].file_name : i \in 1..Len(items)}

\* a put_items that pushes its record whatever the destination
PutDoneLogged(r, ml, c, cur, targets, target_dir) ==
    [err |-> "ok", fs |-> r.fs, n |-> r.n, put_v |-> r.put_v, outs |-> r.outs,
     name_set |-> r.name_set,
     manip_list |-> Append(branch_manip(ml, c), PutFiles(targets, r.put_v, cur)),
     count |-> 0]

\* put_items after the loop returned r: the record is pushed when the
\* destination was omitted
PutDone(r, ml, c, cur, targets, target_dir) ==
    [err |-> "ok", fs |-> r.fs, n |-> r.n, put_v |-> r.put_v, outs |-> r.outs,
     name_set |-> r.name_set,
     manip_list |-> IF target_dir.some THEN ml
                    ELSE Append(branch_manip(ml, c), PutFiles(targets, r.put_v, cur)),
     count |-> IF target_dir.some THEN c ELSE 0]

\* put_items with the listing the name set is built from
PutListed(listed, f, ml, c, cur, targets, target_dir, fault) ==
    IF ~listed.ok
    THEN [err |-> "io", fs |-> f, n |-> 1, put_v |-> <<>>, outs |-> <<>>,
          name_set |-> {}, manip_list |-> ml, count |-> c]
    ELSE PutDone(PutLoop([fs |-> f, n |-> IF target_dir.some THEN 1 ELSE 0],
                         Names(listed.items), [put_v |-> <<>>, outs |-> <<>>],
                         targets, 1, IF target_dir.some THEN target_dir.path ELSE cur,
                         fault),
                 ml, c, cur, targets, target_dir)

\* put_items(targets, target_dir) with the engine in directory cur holding the
\* snapshot lst: the outcome and the engine's state after it
put_items(f, lst, ml, c, cur, targets, target_dir, fault) ==
    PutListed(IF target_dir.some THEN push_items(f, target_dir.path, TRUE, fault = 1)
              ELSE [ok |-> TRUE, items |-> lst],
              f, ml, c, cur, targets, target_dir, fault)

\* yank_item: the clipboard becomes the selected items, or the item at index
yank_item(lst, index, selected) ==
    LET Sel(x) == x.selected
    IN  IF selected THEN SelectSeq(lst, Sel) ELSE <<lst[index]>>

ItemsOf(f, ps) == [i \in 1..Len(ps) |-> make_item(f, ps[i])]

\* trash_to_info: the items of the trash entries named in vec, in the order
\* the trash directory lists them
trash_to_info(f, vec, fail) ==
    IF fail \/ ~IsDir(f, TrashDir) THEN [ok |-> FALSE, items |-> <<>>]
    ELSE LET InVec(p) == \E i \in 1..Len(vec) : vec[i] = p
         IN  [ok |-> TRUE, items |-> ItemsOf(f, SelectSeq(ReadDir(f, TrashDir), InVec))]

-----------------------------------------------------------------------------
(* The undo/redo log. *)

RECURSIVE RemovePut(_, _, _, _)
RECURSIVE RemovedPut(_, _, _, _, _)
\* the inverse of a put: every produced path is removed, in order
RemovePut(e, put, i, fault) ==
    IF i > Len(put) THEN [err |-> "ok", fs |-> e.fs, n |-> e.n]
    ELSE RemovedPut(IF IsDir(e.fs, put[i])
                    THEN FsRemoveDirAll(e.fs, put[i], Hit(e, fault))
                    ELSE FsRemoveFile(e.fs, put[i], Hit(e, fault)),
                    e.n + 1, put, i, fault)
RemovedPut(r, n, put, i, fault) ==
    IF r.ok THEN RemovePut([fs |-> r.fs, n |-> n], put, i + 1, fault)
    ELSE [err |-> "remove", fs |-> r.fs, n |-> n]

\* the record undo() selects, and the one redo() selects
UndoIndex(ml, c) == Len(ml) - c
RedoIndex(ml, c) == Len(ml) - c + 1

\* the engine call undo() or redo() made, and the log as that call left it
NoInner == [call |-> "none", err |-> "ok", manip_list |-> <<>>, count |-> 0]
Inner(call, r) ==
    [call |-> call, err |-> r.err, manip_list |-> r.manip_list, count |-> r.count]

\* what undo() or redo() returned, and the engine after it
LogRes(err, f, log, reg, index, inner, io) ==
    [err |-> err, fs |-> f, manip_list |-> log.ml, count |-> log.c,
     registered |-> reg, index |-> index, inner |-> inner,
     targets |-> io.targets, paths |-> io.paths, outs |-> io.outs, dest |-> io.dest]

Log(ml, c) == [ml |-> ml, c |-> c]
NoIo == [targets |-> <<>>, paths |-> <<>>, outs |-> <<>>, dest |-> NoPath]
PutIo(targets, r, dest) ==
    [targets |-> targets, paths |-> r.put_v, outs |-> r.outs, dest |-> dest]

\* undo of a delete after the restoring put returned r
UndoDeletePut(r, reg, index, targets, dest) ==
    LogRes(IF r.err = "ok" THEN "ok" ELSE "io", r.fs,
           Log(r.manip_list, IF r.err = "ok" THEN r.count + 1 ELSE r.count),
           reg, index, Inner("put", r), PutIo(targets, r, dest))

\* undo of a delete with the items of the record's trash paths
UndoDeleteInfo(info, rec, f, lst, ml, c, reg, cur, xf) ==
    IF ~info.ok THEN LogRes("io", f, Log(ml, c), reg, xf.index, NoInner, NoIo)
    ELSE UndoDeletePut(put_items(f, lst, ml, c, cur, info.items, Some(rec.dir),
                                 IF xf.fault <= 0 THEN xf.fault ELSE xf.fault - 1),
                       reg, xf.index, info.items, rec.dir)

UndoPutRemoved(r, ml, c, reg, index) ==
    LogRes(r.err, r.fs, Log(ml, IF r.err = "ok" THEN c + 1 ELSE c), reg, index,
           NoInner, NoIo)

UndoRenamed(r, ml, c, reg, index) ==
    LogRes(IF r.ok THEN "ok" ELSE "io", r.fs, Log(ml, IF r.ok THEN c + 1 ELSE c), reg,
           index, NoInner, NoIo)

\* the inverse of record rec, the record at xf.index
UndoRecord(rec, f, lst, ml, c, reg, cur, xf) ==
    CASE rec.kind = "Delete" ->
           UndoDeleteInfo(trash_to_info(f, rec.trash, xf.fault = 1), rec, f, lst, ml, c,
                          reg, cur, xf)
      [] rec.kind = "Put" ->
           UndoPutRemoved(RemovePut([fs |-> f, n |-> 0], rec.put, 1, xf.fault), ml, c,
                          reg, xf.index)
      [] OTHER ->
           UndoRenamed(FsRename(f, rec.new_name, rec.original_name, xf.fault = 1), ml, c,
                       reg, xf.index)

\* an undo() that takes the first record for the boundary of the log
undo_above_first(f, lst, ml, c, reg, cur, fault) ==
    IF Len(ml) - c <= 1
    THEN LogRes("NothingToUndo", f, Log(ml, c), reg, 0, NoInner, NoIo)
    ELSE UndoRecord(ml[UndoIndex(ml, c)], f, lst, ml, c, reg, cur,
                    [index |-> UndoIndex(ml, c), fault |-> fault])

\* undo(): the inverse of the selected record, unlogged; the pointer advances
\* when the inverse returned no error
undo(f, lst, ml, c, reg, cur, fault) ==
    IF Len(ml) - c = 0
    THEN LogRes("NothingToUndo", f, Log(ml, c), reg, 0, NoInner, NoIo)
    ELSE UndoRecord(ml[UndoIndex(ml, c)], f, lst, ml, c, reg, cur,
                    [index |-> UndoIndex(ml, c), fault |-> fault])

RedoDeleted(r, index) ==
    LogRes(r.err, r.fs, Log(r.manip_list, IF r.err = "ok" THEN r.count - 1 ELSE r.count),
           r.registered, index, Inner("delete", r), NoIo)

RedoPut(r, reg, index, targets, dest) ==
    LogRes(r.err, r.fs, Log(r.manip_list, IF r.err = "ok" THEN r.count - 1 ELSE r.count),
           reg, index, Inner("put", r), PutIo(targets, r, dest))

RedoRenamed(r, ml, c, reg, index) ==
    LogRes(IF r.ok THEN "ok" ELSE "io", r.fs, Log(ml, IF r.ok THEN c - 1 ELSE c), reg,
           index, NoInner, NoIo)

\* the forward effect of record rec, the record at xf.index
RedoRecord(rec, f, lst, ml, c, reg, cur, xf) ==
    CASE rec.kind = "Delete" ->
           RedoDeleted(remove_and_yank(f, ml, c, cur, rec.original, FALSE, xf.t,
                                       xf.fault), xf.index)
      [] rec.kind = "Put" ->
           RedoPut(put_items(f, lst, ml, c, cur, rec.original, Some(rec.dir), xf.fault),
                   reg, xf.index, rec.original, rec.dir)
      [] OTHER ->
           RedoRenamed(FsRename(f, rec.original_name, rec.new_name, xf.fault = 1), ml, c,
                       reg, xf.index)

\* redo(): the forward effect of the selected record, unlogged; the pointer
\* retreats when it returned no error
redo(f, lst, ml, c, reg, cur, t, fault) ==
    IF c = 0 THEN LogRes("NothingToRedo", f, Log(ml, c), reg, 0, NoInner, NoIo)
    ELSE RedoRecord(ml[RedoIndex(ml, c)], f, lst, ml, c, reg, cur,
                    [index |-> RedoIndex(ml, c), t |-> t, fault |-> fault])

Renamed(r, ml, c, from, to) ==
    [err |-> IF r.ok THEN "ok" ELSE "io", fs |-> r.fs,
     manip_list |-> IF r.ok THEN Append(branch_manip(ml, c), RenamedFile(from, to))
                    ELSE ml,
     count |-> IF r.ok THEN 0 ELSE c]

\* rename: the entry is renamed in its directory and the rename is logged
rename(f, ml, c, item, new_name, fault) ==
    Renamed(FsRename(f, item.file_path, Join(Parent(item.file_path), new_name), fault = 1),
            ml, c, item.file_path, Join(Parent(item.file_path), new_name))

-----------------------------------------------------------------------------
(* The program: the engine driven by the interactive loop. *)

\* the directory tree the program starts in
InitFs ==
    (HomeDir :> Dir) @@ (TrashDir :> Dir)
    @@ (<<"home", "a.txt">> :> File(1))
    @@ (<<"home", ".h">> :> File(2))
    @@ (<<"home", "l">> :> Link(<<"home", "a.txt">>))
    @@ (<<"home", "d">> :> Dir)
    @@ (<<"home", "d", "s">> :> Dir)
    @@ (<<"home", "d", "s", "f">> :> File(3))

\* directories the user visits
NavDirs == {HomeDir, <<"home", "d">>}
\* names the user renames an entry to
RenameNames == {"z"}

\* what a call did: its arguments, the state it started in, what it returned.
\* index is the position (from 1) of the record undo() or redo() selected,
\* outs what each target of a put returned, reg the clipboard it left.
Ret(op, err, io, reg, index, inner) ==
    [op |-> op, err |-> err, targets |-> io.targets, paths |-> io.paths,
     outs |-> io.outs, dest |-> io.dest, registered |-> reg, index |-> index,
     inner |-> inner,
     pre_fs |-> fs, pre_list |-> list, pre_ml |-> manip_list, pre_count |-> count,
     pre_reg |-> registered, pre_dir |-> current_dir, fault |-> armed, time |-> now]

\* put_dir's loop: pc is "call" before the root entry, "walk" in the loop and
\* "done" when put_dir has returned err
Walk(pc, w, target) ==
    [pc |-> pc, err |-> w.err, n |-> w.n, stk |-> w.stk, target |-> target]
NoWalk == Walk("done", [err |-> "ok", n |-> 0, stk |-> <<>>], NoPath)

NoCall == [op |-> "none", err |-> "ok", targets |-> <<>>, paths |-> <<>>,
           outs |-> <<>>, dest |-> NoPath, registered |-> <<>>, index |-> 0,
           inner |-> NoInner, pre_fs |-> InitFs, pre_list |-> <<>>, pre_ml |-> <<>>,
           pre_count |-> 0, pre_reg |-> <<>>, pre_dir |-> HomeDir, fault |-> 0,
           time |-> Epoch]

Init ==
    /\ fs = InitFs
    /\ show_hidden = FALSE
    /\ current_dir = HomeDir
    /\ list = update_list(InitFs, HomeDir, FALSE, <<>>)
    /\ registered = <<>>
    /\ manip_list = <<>>
    /\ count = 0
    /\ now = Epoch
    /\ ret = NoCall
    /\ prev = NoCall
    /\ armed = 0
    /\ steps = 0
    /\ sort_by = "Name"
    /\ entries = <<>>
    /\ walk = NoWalk

\* the items the user acts on: the one under the cursor, or a selected run
WithSelection(lst, lo, hi) ==
    [i \in 1..Len(lst) |-> [lst[i] EXCEPT !.selected = (lo <= i /\ i <= hi)]]
Selections ==
    {<<lo, hi>> \in (1..Len(list)) \X (1..Len(list)) :
        lo < hi /\ hi - lo + 1 <= MaxBatch}
Selected(lst) == LET Sel(x) == x.selected IN SelectSeq(lst, Sel)

CanStep == steps < MaxSteps
Step == steps' = steps + 1 /\ UNCHANGED <<sort_by, entries, walk>>

\* an engine call returns r: the armed fault is spent
Called(r) ==
    /\ Step
    /\ ret' = r
    /\ prev' = ret
    /\ armed' = 0

\* the clock advances
Tick ==
    /\ CanStep
    /\ now < Epoch + MaxTick
    /\ now' = now + 1
    /\ Step
    /\ UNCHANGED <<fs, list, registered, manip_list, count, current_dir,
                   show_hidden, ret, prev, armed>>

\* the machine gets into a condition in which the k-th filesystem call of the
\* next operation fails, or in which no process can be started
Break ==
    \E k \in (1..MaxFault) \cup {NoRm} :
        /\ CanStep
        /\ armed = 0
        /\ armed' = k
        /\ Step
        /\ UNCHANGED <<fs, list, registered, manip_list, count, current_dir,
                       show_hidden, now, ret, prev>>

\* the user enters another directory
ChangeDir ==
    \E d \in NavDirs :
        /\ CanStep
        /\ d # current_dir
        /\ IsDir(fs, d)
        /\ current_dir' = d
        /\ list' = update_list(fs, d, show_hidden, list)
        /\ Step
        /\ UNCHANGED <<fs, registered, manip_list, count, show_hidden, now,
                       ret, prev, armed>>

\* the user toggles the display of hidden entries
ToggleHidden ==
    /\ CanStep
    /\ show_hidden' = ~show_hidden
    /\ list' = update_list(fs, current_dir, ~show_hidden, list)
    /\ Step
    /\ UNCHANGED <<fs, registered, manip_list, count, current_dir, now,
                   ret, prev, armed>>

\* the user yanks the item under the cursor, or the selected items
Yank ==
    /\ CanStep
    /\ \/ \E i \in 1..Len(list) : registered' = yank_item(list, i, FALSE)
       \/ \E s \in Selections :
            registered' = yank_item(WithSelection(list, s[1], s[2]), 1, TRUE)
    /\ Step
    /\ UNCHANGED <<fs, list, manip_list, count, current_dir, show_hidden, now,
                   ret, prev, armed>>

\* the engine after a logged delete of targets returned r
Deleted(r, targets) ==
    /\ fs' = r.fs
    /\ registered' = r.registered
    /\ manip_list' = r.manip_list
    /\ count' = r.count
    /\ list' = update_list(r.fs, current_dir, show_hidden, list)
    /\ Called(Ret("delete", r.err,
                  [targets |-> targets, paths |-> r.trash_vec, outs |-> <<>>,
                   dest |-> NoPath], r.registered, 0, NoInner))
    /\ UNCHANGED <<current_dir, show_hidden, now>>

DeleteCall(targets) ==
    /\ CanStep
    /\ Deleted(remove_and_yank(fs, manip_list, count, current_dir, targets, TRUE, now,
                               armed), targets)

\* the user deletes the item under the cursor, or the selected items
Delete ==
    \/ \E i \in 1..Len(list) : DeleteCall(<<list[i]>>)
    \/ \E s \in Selections : DeleteCall(Selected(WithSelection(list, s[1], s[2])))

Pasted(r) ==
    /\ fs' = r.fs
    /\ manip_list' = r.manip_list
    /\ count' = r.count
    /\ list' = update_list(r.fs, current_dir, show_hidden, list)
    /\ Called(Ret("put", r.err, PutIo(registered, r, current_dir), registered, 0,
                  NoInner))
    /\ UNCHANGED <<registered, current_dir, show_hidden, now>>

\* the user pastes the clipboard into the current directory
Put ==
    /\ CanStep
    /\ registered # <<>>
    /\ Pasted(put_items(fs, list, manip_list, count, current_dir, registered, None, armed))

\* the engine after undo() or redo() returned r
LogCalled(op, r) ==
    /\ fs' = r.fs
    /\ manip_list' = r.manip_list
    /\ count' = r.count
    /\ registered' = r.registered
    /\ list' = update_list(r.fs, current_dir, show_hidden, list)
    /\ Called(Ret(op, r.err, r, r.registered, r.index, r.inner))
    /\ UNCHANGED <<current_dir, show_hidden, now>>

Undo ==
    /\ CanStep
    /\ LogCalled("undo", undo(fs, list, manip_list, count, registered, current_dir, armed))

Redo ==
    /\ CanStep
    /\ LogCalled("redo", redo(fs, list, manip_list, count, registered, current_dir, now,
                              armed))

RenameCalled(r, item) ==
    /\ fs' = r.fs
    /\ manip_list' = r.manip_list
    /\ count' = r.count
    /\ list' = update_list(r.fs, current_dir, show_hidden, list)
    /\ Called(Ret("rename", r.err,
                  [targets |-> <<item>>, paths |-> <<>>, outs |-> <<>>,
                   dest |-> NoPath], registered, 0, NoInner))
    /\ UNCHANGED <<registered, current_dir, show_hidden, now>>

Rename ==
    \E i \in 1..Len(list), new_name \in RenameNames :
        /\ CanStep
        /\ RenameCalled(rename(fs, manip_list, count, list[i], new_name, armed), list[i])

Next ==
    \/ Tick
    \/ Break
    \/ ChangeDir
    \/ ToggleHidden
    \/ Yank
    \/ Delete
    \/ Put
    \/ Undo
    \/ Redo
    \/ Rename

Spec == Init /\ [][Next]_vars

-----------------------------------------------------------------------------
(* The listing on its own: read_dir yields the entries of a directory one by *)
(* one, each with what its metadata says, and the directory is listed once   *)
(* under a sort key and a hidden flag.                                        *)

SortKeys == {"Name", "Time"}
EntryNames == {"a", ".b", "c", "d"}
\* the modification times, in hours from midnight UTC
Times == 0..2
\* what fs::symlink_metadata tells of an entry: its kind and time, or nothing
EntryMetas ==
    [kind : {"dir", "file", "link"}, mtime : Times, meta : {TRUE}]
    \cup [kind : {"dir"}, mtime : {0}, meta : {FALSE}]
DirEntry(name, m) == [name |-> name, kind |-> m.kind, mtime |-> m.mtime, meta |-> m.meta]
InitList ==
    /\ entries = <<>>
    /\ sort_by \in SortKeys
    /\ show_hidden \in BOOLEAN
    /\ list = <<>>
    /\ fs = InitFs
    /\ current_dir = HomeDir
    /\ registered = <<>>
    /\ manip_list = <<>>
    /\ count = 0
    /\ now = Epoch
    /\ ret = NoCall
    /\ prev = NoCall
    /\ armed = 0
    /\ steps = 0
    /\ walk = NoWalk

\* read_dir yields one more entry, of a name it has not yielded, until the
\* directory of at most MaxEntries entries is read
ReadEntry ==
    /\ steps = 0
    /\ Len(entries) < MaxEntries
    /\ \E name \in EntryNames \ {entries[k].name : k \in 1..Len(entries)} :
         \E m \in EntryMetas :
           entries' = Append(entries, DirEntry(name, m))
    /\ UNCHANGED <<fs, list, registered, manip_list, count, current_dir,
                   show_hidden, now, ret, prev, armed, steps, sort_by, walk>>

\* update_list: the directory is listed
UpdateList ==
    /\ steps = 0
    /\ list' = push_items_of(entries, current_dir, sort_by, show_hidden)
    /\ steps' = 1
    /\ UNCHANGED <<fs, registered, manip_list, count, current_dir, show_hidden, now,
                   ret, prev, armed, sort_by, entries, walk>>

NextList == ReadEntry \/ UpdateList

SpecList == InitList /\ [][NextList]_vars

-----------------------------------------------------------------------------
(* put_dir on its own, followed entry by entry: a directory of the tree is   *)
(* in the clipboard and is put into a directory of the tree, which may be     *)
(* the directory itself or one under it.  Each step is one turn of the loop   *)
(* over the walk; the walk reads a directory when it first needs an entry of  *)
(* it, and so meets what earlier turns have created.                          *)

WalkSources == {HomeDir, <<"home", "d">>, <<"home", "d", "s">>}
WalkDests == {HomeDir, <<"home", "d">>, <<"home", "d", "s">>, TrashDir}

InitWalk ==
    /\ fs = InitFs
    /\ current_dir \in WalkDests
    /\ show_hidden \in BOOLEAN
    /\ list = update_list(InitFs, current_dir, show_hidden, <<>>)
    /\ registered \in {<<make_item(InitFs, p)>> : p \in WalkSources}
    /\ armed \in 0..MaxFault
    /\ walk = Walk("call", [err |-> "ok", n |-> 0, stk |-> <<>>], NoPath)
    /\ manip_list = <<>>
    /\ count = 0
    /\ now = Epoch
    /\ ret = NoCall
    /\ prev = NoCall
    /\ steps = 0
    /\ sort_by = "Name"
    /\ entries = <<>>

\* the loop after create_dir(target) returned mk
PutDirBegun(mk, target) ==
    /\ fs' = mk.fs
    /\ walk' = IF mk.ok
               THEN Walk("walk", [err |-> "ok", n |-> 1,
                                  stk |-> WalkStart(fs, registered[1].file_path)],
                         target)
               ELSE Walk("done", [err |-> "io", n |-> 1, stk |-> <<>>], NoPath)

\* put_dir's first turn, the root entry: the target directory is created
PutDirBegin ==
    /\ walk.pc = "call"
    /\ \E target \in {PutDirTarget(registered[1], current_dir, Names(list))} :
         \E mk \in {FsCreateDir(fs, target, armed = 1)} : PutDirBegun(mk, target)
    /\ UNCHANGED <<list, registered, manip_list, count, current_dir, show_hidden, now,
                   ret, prev, armed, steps, sort_by, entries>>

\* the loop after a turn returned w
PutDirStepped(w) ==
    /\ fs' = w.fs
    /\ walk' = Walk(IF w.done THEN "done" ELSE "walk", w, walk.target)

\* one more turn of put_dir's loop
PutDirStep ==
    /\ walk.pc = "walk"
    /\ \E nx \in {WalkNext(fs, walk.stk)} :
         \E w \in {PutDirEntry(nx, [fs |-> fs, n |-> walk.n], registered[1].file_path,
                               walk.target, armed)} : PutDirStepped(w)
    /\ UNCHANGED <<list, registered, manip_list, count, current_dir, show_hidden, now,
                   ret, prev, armed, steps, sort_by, entries>>

NextWalk == PutDirBegin \/ PutDirStep

\* the call runs on the calling thread until it returns
SpecWalk == InitWalk /\ [][NextWalk]_vars /\ WF_vars(NextWalk)

-----------------------------------------------------------------------------
(* Properties.  ret is the last engine call, prev the one before it; the      *)
(* steps between two calls (clock, fault, navigation, yank) leave the         *)
(* filesystem and the log alone, so fs, manip_list and count are what the     *)
(* call ret left.                                                             *)

Succeeded(r, op) == r.op = op /\ r.err = "ok"
Boundary == {"NothingToUndo", "NothingToRedo"}
\* one of the targets of the call's put returned an error
TargetFailed(r) == \E i \in 1..Len(r.outs) : r.outs[i].err # "ok"
\* the call appended a record: a logged delete or a rename that returned no
\* error, a put into the current directory
Appended(r) == r.op \in {"delete", "put", "rename"} /\ r.err = "ok"
RecordKind(op) == CASE op = "delete" -> "Delete" [] op = "put" -> "Put" [] OTHER -> "Rename"
\* the delete of the single item of kind ft, then undo()
DeletedThenUndone(ft) ==
    /\ Succeeded(prev, "delete")
    /\ Len(prev.targets) = 1
    /\ prev.targets[1].file_type = ft
    /\ Succeeded(ret, "undo")
StartsWith(s, pre) == Len(s) >= Len(pre) /\ SubSeq(s, 1, Len(pre)) = pre

\* C1: a logged delete of one regular file that succeeded, followed by an
\* undo() that succeeded, leaves a regular file at the file's original path,
\* holding the bytes the file held before the delete.
C1_FileRoundTrip ==
    DeletedThenUndone("File") =>
        /\ IsFile(fs, prev.targets[1].file_path)
        /\ fs[prev.targets[1].file_path].data
             = prev.pre_fs[prev.targets[1].file_path].data

\* C2: a logged delete of one directory that succeeded, followed by an undo()
\* that succeeded, leaves every entry of the directory's subtree at the path it
\* had before the delete, as it was.
C2_DirRoundTrip ==
    DeletedThenUndone("Directory") =>
        \A q \in Subtree(prev.pre_fs, prev.targets[1].file_path) :
            Exists(fs, q) /\ fs[q] = prev.pre_fs[q]

\* C3: in every reachable state the redo pointer is between 0 and the number
\* of records.
C3_PointerInRange == count \in 0..Len(manip_list)

\* C3's case: an undo() has moved the pointer to the top of a non-empty log and
\* the redo() after it failed
C3_Witness ==
    /\ Succeeded(prev, "undo")
    /\ ret.op = "redo" /\ ret.err \notin {"ok"} \cup Boundary
    /\ count = Len(manip_list) /\ count > 0

\* C4: a call that appends a record to the log (records, k) leaves the first
\* length - k records followed by the new record, and pointer 0; a redo() that
\* follows an append fails with NothingToRedo.
C4_BranchTruncation ==
    /\ Appended(ret) =>
         /\ count = 0
         /\ Len(manip_list) = Len(ret.pre_ml) - ret.pre_count + 1
         /\ SubSeq(manip_list, 1, Len(manip_list) - 1)
              = SubSeq(ret.pre_ml, 1, Len(ret.pre_ml) - ret.pre_count)
         /\ manip_list[Len(manip_list)].kind = RecordKind(ret.op)
    /\ (Appended(prev) /\ ret.op = "redo") => ret.err = "NothingToRedo"

\* C4's case: A is appended, undone, B is appended with the pointer at 1, and
\* the redo() after it has returned
C4_Witness ==
    /\ Appended(prev) /\ prev.pre_count = 1 /\ Len(prev.pre_ml) = 1
    /\ ret.op = "redo"
    /\ Len(manip_list) = 1

\* C5: undo() fails with NothingToUndo exactly when length - pointer = 0,
\* redo() fails with NothingToRedo exactly when pointer = 0, and a call that
\* failed so leaves the records, the pointer and the filesystem as they were.
C5_LogBoundaries ==
    /\ ret.op = "undo" =>
         (ret.err = "NothingToUndo" <=> Len(ret.pre_ml) - ret.pre_count = 0)
    /\ ret.op = "redo" => (ret.err = "NothingToRedo" <=> ret.pre_count = 0)
    /\ ret.err \in Boundary =>
         manip_list = ret.pre_ml /\ count = ret.pre_count /\ fs = ret.pre_fs

\* C5's case: undo() on the empty log, then redo()
C5_Witness ==
    /\ prev.op = "undo" /\ prev.err = "NothingToUndo" /\ prev.pre_ml = <<>>
    /\ ret.op = "redo" /\ ret.err = "NothingToRedo"

\* C6: an undo() or redo() whose filesystem step failed leaves the pointer
\* and the records as they were.
C6_FailedStepKeepsLog ==
    (/\ ret.op \in {"undo", "redo"}
     /\ (ret.err \notin {"ok"} \cup Boundary \/ TargetFailed(ret)))
    => count = ret.pre_count /\ manip_list = ret.pre_ml

\* C7: an undo() that succeeded took the record at index length - pointer - 1
\* (from 0) and moved the pointer up by one, a redo() that succeeded took the
\* record at index length - pointer and moved the pointer down by one, neither
\* changed the records; a redo() after an undo() takes the record the undo()
\* took and leaves the log as it was before the undo().
C7_UndoRedoStep ==
    /\ Succeeded(ret, "undo") =>
         /\ ret.index - 1 = Len(ret.pre_ml) - ret.pre_count - 1
         /\ count = ret.pre_count + 1
         /\ manip_list = ret.pre_ml
    /\ Succeeded(ret, "redo") =>
         /\ ret.index - 1 = Len(ret.pre_ml) - ret.pre_count
         /\ count = ret.pre_count - 1
         /\ manip_list = ret.pre_ml
    /\ (Succeeded(prev, "undo") /\ Succeeded(ret, "redo")) =>
         /\ ret.index = prev.index
         /\ count = prev.pre_count
         /\ manip_list = prev.pre_ml

\* C7's case: the undo() of a delete, put back through the paste engine, and
\* the redo() of it
C7_Witness ==
    /\ Succeeded(prev, "undo") /\ prev.inner.call = "put"
    /\ Succeeded(ret, "redo") /\ ret.inner.call = "delete"

\* C8: the paths a put produces are pairwise distinct and none of them is a
\* path that existed before the call.
C8_CollisionFreePaste ==
    \A i \in 1..Len(ret.paths) :
        ret.op \in {"put", "undo", "redo"} =>
            /\ ~Exists(ret.pre_fs, ret.paths[i])
            /\ \A j \in 1..Len(ret.paths) : ret.paths[j] = ret.paths[i] => j = i

\* the name of target i of the call's put, as the paste engine is to take it
Candidate(r, i) ==
    IF FromTrash(r.targets[i]) THEN SkipChars(r.targets[i].file_name, PrefixLen)
    ELSE r.targets[i].file_name
\* the name is free for target i: no entry of the destination has it, and no
\* earlier target got it
FreeFor(r, i, name) ==
    /\ ~Exists(r.pre_fs, Join(r.dest, name))
    /\ \A j \in 1..(i - 1) : r.outs[j].path # Join(r.dest, name)

\* C9: with no fault on the disk, put restores a target that lies in the trash
\* directory under its name without the timestamp prefix when that name is
\* free in the destination, and under a suffixed form of it otherwise; a
\* target from elsewhere is put under its own name, or a suffixed form of it.
C9_TrashOriginRestore ==
    \A i \in 1..Len(ret.outs) :
        (/\ ret.op \in {"put", "undo", "redo"}
         /\ ret.fault = 0
         /\ Exists(ret.pre_fs, ret.targets[i].file_path)) =>
            /\ FromTrash(ret.targets[i]) => ret.outs[i].err = "ok"
            /\ ret.outs[i].err = "ok" =>
                 /\ Parent(ret.outs[i].path) = ret.dest
                 /\ StartsWith(FileName(ret.outs[i].path), Candidate(ret, i))
                 /\ FreeFor(ret, i, Candidate(ret, i))
                      <=> FileName(ret.outs[i].path) = Candidate(ret, i)

\* C10: a put with an explicit destination and a delete with logging off leave
\* the records and the pointer as they were, whether they return an error or
\* not; a Put record is appended by a put into the current directory only.
C10_UnloggedCalls ==
    /\ ret.inner.call # "none" =>
         /\ ret.inner.manip_list = ret.pre_ml
         /\ ret.inner.count = ret.pre_count
    /\ (/\ manip_list # ret.pre_ml
        /\ manip_list # <<>>
        /\ manip_list[Len(manip_list)].kind = "Put") => ret.op = "put"

\* C10's case: undo() has put a deleted item back with an explicit
\* destination, and the delete with logging off that redo() made has failed
C10_Witness ==
    /\ prev.op = "undo" /\ prev.inner.call = "put" /\ prev.inner.err = "ok"
    /\ ret.op = "redo" /\ ret.inner.call = "delete" /\ ret.inner.err # "ok"

\* the record at the end of the log
LastRecord == manip_list[Len(manip_list)]
\* p is an entry of the trash directory whose name is a timestamp, an
\* underscore and name
TrashEntry(f, p, name) ==
    /\ Len(p) = Len(TrashDir) + 1
    /\ Parent(p) = TrashDir
    /\ Exists(f, p)
    /\ Len(FileName(p)) = PrefixLen + Len(name)
    /\ SkipChars(FileName(p), PrefixLen) = name

\* C11: a logged delete that succeeded has appended exactly one record, a
\* Delete record whose trash paths are one per target in the order of the
\* targets, path i being the entry of the trash directory target i was placed
\* at, whose original items are the targets and whose directory is the current
\* directory.
C11_DeleteRecord ==
    Succeeded(ret, "delete") =>
        /\ Len(manip_list) = Len(ret.pre_ml) - ret.pre_count + 1
        /\ LastRecord.kind = "Delete"
        /\ LastRecord.original = ret.targets
        /\ LastRecord.dir = ret.pre_dir
        /\ LastRecord.trash = ret.paths
        /\ Len(ret.paths) = Len(ret.targets)
        /\ \A i \in 1..Len(ret.paths) :
             TrashEntry(fs, ret.paths[i], ret.targets[i].file_name)

\* the entries at and under the path of target i are as before the call
Untouched(r, f, i) ==
    \A q \in Subtree(r.pre_fs, r.targets[i].file_path) :
        Exists(f, q) /\ f[q] = r.pre_fs[q]
\* a delete handled the targets before the one numbered Len(r.paths) + 1
Handled(r) == 1..Len(r.paths)

\* C12: a delete handles its targets in the order given and stops at the
\* first one that cannot be copied or removed: a delete that returned no error
\* has removed every target, and a delete that returned an error at target i
\* has left the targets after i as they were, has the targets before i in the
\* trash and off their source paths, and has appended no record.
C12_DeleteAborts ==
    /\ Succeeded(ret, "delete") =>
         \A i \in 1..Len(ret.targets) : ~Exists(fs, ret.targets[i].file_path)
    /\ (ret.op = "delete" /\ ret.err # "ok") =>
         /\ Len(ret.paths) < Len(ret.targets)
         /\ \A i \in (Len(ret.paths) + 2)..Len(ret.targets) : Untouched(ret, fs, i)
         /\ \A i \in Handled(ret) :
              /\ TrashEntry(fs, ret.paths[i], ret.targets[i].file_name)
              /\ ~Exists(fs, ret.targets[i].file_path)
         /\ manip_list = ret.pre_ml
         /\ count = ret.pre_count

\* the call was a delete or a put that returned an error, made by the user or
\* by undo() or redo()
EngineFailed(r) ==
    \/ r.op \in {"delete", "put"} /\ r.err # "ok"
    \/ r.inner.call # "none" /\ r.inner.err # "ok"

\* C13: a delete or a put that returned an error has left the clipboard, the
\* records and the pointer as they were before the call.
C13_FailedCallKeepsState ==
    EngineFailed(ret) =>
        /\ ret.registered = ret.pre_reg
        /\ manip_list = ret.pre_ml
        /\ count = ret.pre_count

\* the call was a delete that returned no error: a logged one made by the
\* user, or one with logging off made by redo()
DeleteSucceeded(r) ==
    \/ Succeeded(r, "delete")
    \/ r.op = "redo" /\ r.inner.call = "delete" /\ r.inner.err = "ok"
\* the targets of that delete
DeleteTargets(r) ==
    IF r.op = "delete" THEN r.targets
    ELSE IF r.op = "redo" /\ r.inner.call = "delete" THEN r.pre_ml[r.index].original
    ELSE <<>>
\* the clipboard entry c is made of the snapshot t: its kind and hidden flag,
\* and its name, alone or behind the timestamp of the trash
FromSnapshot(c, t) ==
    /\ c.file_type = t.file_type
    /\ c.is_hidden = t.is_hidden
    /\ \/ c.file_name = t.file_name
       \/ /\ Len(c.file_name) = PrefixLen + Len(t.file_name)
          /\ SkipChars(c.file_name, PrefixLen) = t.file_name

\* C14: after a delete that returned no error, with logging on or off, the
\* clipboard holds one entry per target, in the order of the targets, entry i
\* made of the snapshot of target i, and nothing of what it held before.
C14_DeleteFillsClipboard ==
    DeleteSucceeded(ret) =>
        /\ Len(ret.registered) = Len(DeleteTargets(ret))
        /\ \A i \in 1..Len(ret.registered) :
             FromSnapshot(ret.registered[i], DeleteTargets(ret)[i])

\* what the put of the call returned: the user's put, or the one undo() or
\* redo() made
PutErr(r) == IF r.op = "put" THEN r.err ELSE r.inner.err

\* C15: when the copy of a target of a put fails, the put returns the copy
\* error and handles no target after that one.
C15_PutReturnsCopyError ==
    \A i \in 1..Len(ret.outs) :
        (/\ ret.op = "put" \/ ret.inner.call = "put"
         /\ ret.outs[i].err = "copy") =>
            /\ PutErr(ret) = "copy"
            /\ i = Len(ret.outs)

\* no item of the sequence is marked as selected
NoneSelected(items) == \A i \in 1..Len(items) : ~items[i].selected

\* C16: in every reachable state no item of the clipboard and no original
\* item of a Delete or Put record is marked as selected.
C16_StoredItemsUnselected ==
    /\ NoneSelected(registered)
    /\ \A k \in 1..Len(manip_list) :
         manip_list[k].kind \in {"Delete", "Put"} => NoneSelected(manip_list[k].original)

\* C17: in a listing, under either sort key and either hidden flag, every
\* Directory item stands before every File and Symlink item.
C17_DirectoriesFirst ==
    \A i, j \in 1..Len(list) :
        (list[i].file_type = "Directory" /\ list[j].file_type # "Directory") => i < j

\* C17's case: sorted by time with hidden items dropped, a listing holds a
\* directory behind which a newer file was read
C17_Witness ==
    /\ steps = 1 /\ sort_by = "Time" /\ ~show_hidden
    /\ Len(entries) = MaxEntries /\ Len(list) = 2
    /\ list[1].file_type = "Directory" /\ list[2].file_type = "File"
    /\ OptionCmp(list[1].modified, list[2].modified) < 0
    /\ entries[1].name = list[2].file_name

\* C18: a put of a directory returns, whatever the destination: the directory
\* itself and the directories under it included.
C18_PutTerminates == <>(walk.pc = "done")

\* C18's case: a directory was put into itself or under itself, the walk went
\* down the copy it was making until the longest path was reached, and put_dir
\* has returned
C18_Witness ==
    /\ walk.pc = "done" /\ armed = 0
    /\ IsPrefix(registered[1].file_path, current_dir)
    /\ walk.err = "io"
    /\ \E q \in DOMAIN fs :
         Len(q) = MaxDepth /\ IsPrefix(Join(current_dir, registered[1].file_name), q)

\* the call was a delete: a logged one made by the user, or one with logging
\* off made by redo()
DeleteMade(r) == r.op = "delete" \/ (r.op = "redo" /\ r.inner.call = "delete")
\* before the call, item t was a regular file or a link to one
FileOrLinked(r, t) ==
    /\ t.file_type \in {"File", "Symlink"}
    /\ Exists(r.pre_fs, t.file_path)
    /\ IsFile(r.pre_fs, Resolve(r.pre_fs, t.file_path))
\* the trash holds an entry named after item t with the bytes t had before the call
Recoverable(r, f, t) ==
    \E p \in DOMAIN f :
        /\ TrashEntry(f, p, t.file_name)
        /\ IsFile(f, p)
        /\ f[p].data = r.pre_fs[Resolve(r.pre_fs, t.file_path)].data

\* C19: a delete, with logging on or off, that returned no error has taken
\* every target that was a regular file or a link to one off its source path,
\* and whenever a delete has taken such a target off its source path, the
\* trash holds an entry named <timestamp>_<name> with the target's bytes.
C19_DeletedFileRecoverable ==
    \A i \in 1..Len(DeleteTargets(ret)) :
        (DeleteMade(ret) /\ FileOrLinked(ret, DeleteTargets(ret)[i])) =>
            /\ DeleteSucceeded(ret) => ~Exists(fs, DeleteTargets(ret)[i].file_path)
            /\ ~Exists(fs, DeleteTargets(ret)[i].file_path)
                 => Recoverable(ret, fs, DeleteTargets(ret)[i])

\* where the delete put target i, or was putting it when it failed: for a
\* logged delete the directory named after the clock, for the delete redo()
\* made the trash path of the record
TrashPathOf(r, i) ==
    IF r.op = "delete"
    THEN IF i <= Len(r.paths) THEN r.paths[i]
         ELSE Join(TrashDir, TrashName(r.time, r.targets[i].file_name))
    ELSE r.pre_ml[r.index].trash[i]
\* every entry of the subtree target i had before the call is in the trash,
\* at its path relative to the target, as it was
CopiedAll(r, f, i) ==
    \A q \in Subtree(r.pre_fs, DeleteTargets(r)[i].file_path) :
        /\ Exists(f, Rebase(q, DeleteTargets(r)[i].file_path, TrashPathOf(r, i)))
        /\ f[Rebase(q, DeleteTargets(r)[i].file_path, TrashPathOf(r, i))] = r.pre_fs[q]
\* target i is a directory that was there before the call
DirTarget(r, i) ==
    /\ DeleteTargets(r)[i].file_type = "Directory"
    /\ IsDir(r.pre_fs, DeleteTargets(r)[i].file_path)
\* the errors of re-creating an entry in the trash
CopyErrors == {"copy", "io"}

PutMade(r) == r.op = "put" \/ r.inner.call = "put"

\* C21: after a put, whatever it returned, every entry of every source that
\* was there before the call is at its path as it was, and the subtree of
\* the source holds no entry it did not hold before.
C21_PutKeepsSources ==
    \A i \in 1..Len(ret.targets) :
        (PutMade(ret) /\ Exists(ret.pre_fs, ret.targets[i].file_path)) =>
            /\ Untouched(ret, fs, i)
            /\ Subtree(fs, ret.targets[i].file_path)
                 \subseteq Subtree(ret.pre_fs, ret.targets[i].file_path)


\* the instant the entry of a listed item was modified at, -1 when its
\* metadata could not be read
ModifiedAt(x) ==
    LET e == CHOOSE e \in {entries[k] : k \in 1..Len(entries)} : e.name = x.file_name
    IN  IF e.meta THEN e.mtime ELSE -1
SameSubList(x, y) == (x.file_type = "Directory") = (y.file_type = "Directory")

\* C22: listed by time, within the directories and within the files and
\* links, no item stands before one modified later than it, and an item
\* without time stands before no item with one; every entry that is shown
\* is listed.
C22_TimeOrder ==
    (steps = 1 /\ sort_by = "Time") =>
        /\ Len(list) = Cardinality({k \in 1..Len(entries) :
                                       show_hidden \/ ~make_item_of(entries[k], current_dir).is_hidden})
        /\ \A i, j \in 1..Len(list) :
              (i < j /\ SameSubList(list[i], list[j])) =>
                  /\ ModifiedAt(list[i]) >= ModifiedAt(list[j])
                  /\ list[j].modified.some => list[i].modified.some

\* C23: a target that put has created a path for has inserted the final
\* component of that path into the name set, and nothing else; a directory
\* from the trash whose stripped name the destination holds is, with no fault
\* on the disk, created under the name that was inserted, which is not the
\* stripped name.
C23_InsertedNameIsCreatedName ==
    \A i \in 1..Len(ret.outs) :
        PutMade(ret) =>
            /\ ret.outs[i].err = "ok" =>
                 ret.outs[i].named = {FileName(ret.outs[i].path)}
            /\ (/\ ret.fault = 0
                /\ FromTrash(ret.targets[i])
                /\ ret.targets[i].file_type = "Directory"
                /\ Exists(ret.pre_fs, ret.targets[i].file_path)
                /\ Exists(ret.pre_fs, Join(ret.dest, Candidate(ret, i)))) =>
                   \E nm \in ret.outs[i].named :
                       /\ nm # Candidate(ret, i)
                       /\ ret.outs[i].path = Join(ret.dest, nm)
                       /\ IsDir(fs, Join(ret.dest, nm))

\* C24: in every state, every trash path of every Delete record of the log
\* names an entry of the trash directory that exists.
C24_TrashPathsExist ==
    \A k \in 1..Len(manip_list) :
        manip_list[k].kind = "Delete" =>
            \A i \in 1..Len(manip_list[k].trash) :
                /\ Parent(manip_list[k].trash[i]) = TrashDir
                /\ Exists(fs, manip_list[k].trash[i])

\* the trash paths of the Delete records of the log, each with its record
\* and its place in the record
RecordedTrash ==
    {<<k, i>> \in (1..Len(manip_list)) \X (1..MaxBatch) :
        manip_list[k].kind = "Delete" /\ i <= Len(manip_list[k].trash)}

\* C25: a logged delete places no item at a path that was an entry of the
\* trash before the call, and the trash paths recorded in the log for
\* distinct deleted items are pairwise distinct, whatever the clock returns.
C25_TrashPathsDistinct ==
    /\ \A i \in 1..Len(ret.paths) :
          (DeleteMade(ret) /\ ret.paths[i] # NoPath) => ~Exists(ret.pre_fs, ret.paths[i])
    /\ \A x, y \in RecordedTrash :
          manip_list[x[1]].trash[x[2]] = manip_list[y[1]].trash[y[2]] => x = y

\* C26: a put with the destination omitted followed by an undo() that
\* succeeded leaves the current directory of the put holding the entries it
\* held before the put, each as it was, whether or not a target of the put
\* failed.
C26_PutUndoRoundTrip ==
    (/\ prev.op = "put" /\ prev.err = "ok"
     /\ Succeeded(ret, "undo") /\ ret.pre_ml[ret.index].kind = "Put")
    => /\ Subtree(fs, prev.pre_dir) = Subtree(prev.pre_fs, prev.pre_dir)
       /\ \A q \in Subtree(prev.pre_fs, prev.pre_dir) : fs[q] = prev.pre_fs[q]

\* the names of the entries directory d holds on disk, hidden ones included
NamesOnDisk(f, d) == {FileName(q) : q \in Children(f, d)}

\* C27: a put with the destination omitted produces, for every target it
\* returns a path for, an entry of the current directory under a name that no
\* entry of that directory had on disk when the call was made, and leaves
\* every entry the directory had as it was.
C27_PutSparesCurrentDir ==
    ret.op = "put" =>
        /\ \A i \in 1..Len(ret.outs) :
              ret.outs[i].err = "ok" =>
                  /\ Parent(ret.outs[i].path) = ret.pre_dir
                  /\ FileName(ret.outs[i].path) \notin NamesOnDisk(ret.pre_fs, ret.pre_dir)
        /\ \A q \in Children(ret.pre_fs, ret.pre_dir) :
              Exists(fs, q) /\ fs[q] = ret.pre_fs[q]

=============================================================================
